---- MODULE Spec2Model ----
(***************************************************************************)
(* A model of src/yuzu/bootmanager.cpp: the emulation control thread       *)
(* (EmuThread::run) together with the requests another thread makes of it, *)
(* and the render window (GRenderWindow): render target contexts, the      *)
(* first-frame notification, geometry backup and touch translation.        *)
(***************************************************************************)
EXTENDS Integers, Sequences, FiniteSets, TLC

\* ------------------------------------------------------------------------
\* Bounds of the model
\* ------------------------------------------------------------------------

\* Number of requests (SetRunning, RequestStop, ExecStep) the UI thread makes.
MaxRequests == 3

\* ------------------------------------------------------------------------
\* State
\* ------------------------------------------------------------------------

VARIABLES
    \* EmuThread fields
    stop_run,        \* std::atomic_bool stop_run
    running,         \* bool running
    exec_step,       \* bool exec_step
    running_guard,   \* std::atomic_bool running_guard
    running_wait,    \* Common::Event running_wait: TRUE when set
    running_mutex,   \* holder of running_mutex: "free", "emu" or "ui"
    \* EmuThread::run locals and position
    pc,              \* position of the emulation thread in run()
    was_active,      \* local of run()
    failed_call,     \* which call's failure branch run() is in: "none", "Run", "Pause"
    \* SetRunning in progress, per calling thread
    sr_pc,           \* position inside SetRunning: "none", "lock", "write", "notify", "set", "spin"
    sr_arg,          \* the argument of SetRunning
    \* the UI thread
    ui_pc,           \* "idle", "SetRunning", "ExecStep"
    requests,        \* requests made so far
    \* observation of the calls and signals run() makes
    run_calls,       \* calls of system.Run()
    pause_calls,     \* calls of system.Pause()
    shutdown_calls,  \* calls of system.Shutdown()
    failures,        \* Run()/Pause() calls that returned a status other than Success
    errors,          \* ErrorThrown emitted
    last_signal,     \* last of DebugModeEntered/DebugModeLeft emitted: "none", "entered", "left"
    needs_resume,    \* the loop set running to false and nobody outside set it to true since
    ext_request,     \* an external pause/stop request was made since the last Run() call
    wait_src,        \* the thread whose SetRunning set running_wait last, "none" once consumed
    woken_by,        \* wait_src as it was when running_wait.Wait() last returned
    \* the settings and globals GRenderWindow reads
    renderer_backend, \* Settings::values.renderer_backend
    g_first_context, \* the global g_first_context is not null
    \* GRenderWindow fields
    main_context,    \* main_context
    child_context,   \* child_context
    first_frame,     \* first_frame
    geometry,        \* geometry: the backed-up QByteArray
    \* the QWidget under GRenderWindow
    widget_geometry, \* the widget's position and size
    has_parent,      \* parent() != nullptr
    crashed,         \* the process was ended by a null dereference
    \* observation of the calls made of GRenderWindow
    last_op,         \* the last call made of the window
    inits,           \* calls of InitRenderTarget so far
    init_result,     \* what the last InitRenderTarget returned: "none", "true", "false"
    init_backend,    \* the backend the last InitRenderTarget read
    create_failed,   \* a context creation failed during the last InitRenderTarget
    loader_ok,       \* LoadOpenGL ran during the last InitRenderTarget and found nothing missing
    null_deref,      \* the last call dereferenced a null context
    release_log,     \* the contexts the last ReleaseRenderTarget released, in order
    frames_since_init, \* FirstFrameDisplayed emitted since the last InitRenderTarget
    polled_since_init, \* PollEvents was called since the last InitRenderTarget
    saved,           \* what the last saveGeometry returned
    created,         \* the last run of CreateSharedContext: what it read and returned
    \* touch input
    pixel_ratio,     \* devicePixelRatioF(), as <<numerator, denominator>>
    touch_event,     \* the QTouchEvent delivered to event()
    touch_handled,   \* event() has handled touch_event
    touch_calls,     \* the TouchPressed/TouchMoved/TouchReleased calls event() made
    touch_undefined  \* the coordinates passed were computed from a division by zero

emu_vars == <<stop_run, running, exec_step, running_guard, running_wait, running_mutex,
              pc, was_active, failed_call, sr_pc, sr_arg, ui_pc, requests,
              run_calls, pause_calls, shutdown_calls, failures, errors, last_signal,
              needs_resume, ext_request, wait_src, woken_by>>

win_vars == <<renderer_backend, g_first_context, main_context,
              child_context, first_frame, geometry, widget_geometry, has_parent, crashed,
              last_op, inits, init_result, init_backend, create_failed, loader_ok,
              null_deref, release_log, frames_since_init, polled_since_init, saved, created>>

touch_vars == <<pixel_ratio, touch_event, touch_handled, touch_calls, touch_undefined>>

vars == <<emu_vars, win_vars, touch_vars>>

Threads == {"emu", "ui"}

ResultStatus == {"Success", "Error"}

\* ------------------------------------------------------------------------
\* EmuThread::SetRunning, RequestStop, ExecStep (declared in bootmanager.h)
\* ------------------------------------------------------------------------

\* std::unique_lock lock{running_mutex};
SetRunningLock(t) ==
    /\ sr_pc[t] = "lock"
    /\ running_mutex = "free"
    /\ running_mutex' = t
    /\ sr_pc' = [sr_pc EXCEPT ![t] = "write"]
    /\ UNCHANGED <<win_vars, touch_vars, stop_run, running, exec_step, running_guard, running_wait, pc, was_active,
                   failed_call, sr_arg, ui_pc, requests, run_calls, pause_calls,
                   shutdown_calls, failures, errors, last_signal, needs_resume, ext_request,
                   wait_src, woken_by>>

\* this->running = running; lock.unlock();
SetRunningWrite(t) ==
    /\ sr_pc[t] = "write"
    /\ running' = sr_arg[t]
    /\ running_mutex' = "free"
    /\ sr_pc' = [sr_pc EXCEPT ![t] = "notify"]
    /\ needs_resume' = IF t = "emu" THEN TRUE
                       ELSE IF sr_arg[t] THEN FALSE ELSE needs_resume
    /\ UNCHANGED <<win_vars, touch_vars, stop_run, exec_step, running_guard, running_wait, pc, was_active,
                   failed_call, sr_arg, ui_pc, requests, run_calls, pause_calls,
                   shutdown_calls, failures, errors, last_signal, ext_request,
                   wait_src, woken_by>>

\* What running_cv.notify_all() does to the emulation thread.
Notified(p) == IF p = "cv_blocked" THEN "cv_lock" ELSE p

\* running_cv.notify_all(); if (!running) ...
SetRunningNotify(t) ==
    /\ sr_pc[t] = "notify"
    /\ pc' = Notified(pc)
    /\ IF sr_arg[t]
       THEN /\ sr_pc' = [sr_pc EXCEPT ![t] = "none"]
            /\ ui_pc' = IF t = "ui" THEN "idle" ELSE ui_pc
       ELSE /\ sr_pc' = [sr_pc EXCEPT ![t] = "set"]
            /\ UNCHANGED ui_pc
    /\ UNCHANGED <<win_vars, touch_vars, stop_run, running, exec_step, running_guard, running_wait, running_mutex,
                   was_active, failed_call, sr_arg, requests, run_calls, pause_calls,
                   shutdown_calls, failures, errors, last_signal, needs_resume, ext_request,
                   wait_src, woken_by>>

\* running_wait.Set();
SetRunningSet(t) ==
    /\ sr_pc[t] = "set"
    /\ running_wait' = TRUE
    /\ sr_pc' = [sr_pc EXCEPT ![t] = "spin"]
    /\ wait_src' = t
    /\ ext_request' = IF t = "ui" THEN TRUE ELSE ext_request
    /\ UNCHANGED <<win_vars, touch_vars, stop_run, running, exec_step, running_guard, running_mutex, pc, was_active,
                   failed_call, sr_arg, ui_pc, requests, run_calls, pause_calls,
                   shutdown_calls, failures, errors, last_signal, needs_resume,
                   woken_by>>

\* while (running_guard) ;   and the return to the caller
SetRunningSpin(t) ==
    /\ sr_pc[t] = "spin"
    /\ running_guard = FALSE
    /\ sr_pc' = [sr_pc EXCEPT ![t] = "none"]
    /\ IF t = "ui"
       THEN ui_pc' = "idle" /\ UNCHANGED pc
       ELSE pc' = "emit_error" /\ UNCHANGED ui_pc
    /\ UNCHANGED <<win_vars, touch_vars, stop_run, running, exec_step, running_guard, running_wait, running_mutex,
                   was_active, failed_call, sr_arg, requests, run_calls, pause_calls,
                   shutdown_calls, failures, errors, last_signal, needs_resume, ext_request,
                   wait_src, woken_by>>

\* The UI thread calls emu_thread->SetRunning(b).
UISetRunning(b) ==
    /\ ui_pc = "idle"
    /\ requests < MaxRequests
    /\ requests' = requests + 1
    /\ ui_pc' = "SetRunning"
    /\ sr_pc' = [sr_pc EXCEPT !["ui"] = "lock"]
    /\ sr_arg' = [sr_arg EXCEPT !["ui"] = b]
    /\ ext_request' = IF b THEN ext_request ELSE TRUE
    /\ UNCHANGED <<win_vars, touch_vars, stop_run, running, exec_step, running_guard, running_wait, running_mutex,
                   pc, was_active, failed_call, run_calls, pause_calls, shutdown_calls,
                   failures, errors, last_signal, needs_resume, wait_src, woken_by>>

\* The UI thread calls emu_thread->RequestStop(): stop_run = true; SetRunning(false);
RequestStop ==
    /\ ui_pc = "idle"
    /\ requests < MaxRequests
    /\ requests' = requests + 1
    /\ stop_run' = TRUE
    /\ ui_pc' = "SetRunning"
    /\ sr_pc' = [sr_pc EXCEPT !["ui"] = "lock"]
    /\ sr_arg' = [sr_arg EXCEPT !["ui"] = FALSE]
    /\ ext_request' = TRUE
    /\ UNCHANGED <<win_vars, touch_vars, running, exec_step, running_guard, running_wait, running_mutex,
                   pc, was_active, failed_call, run_calls, pause_calls, shutdown_calls,
                   failures, errors, last_signal, needs_resume, wait_src, woken_by>>

\* The UI thread calls emu_thread->ExecStep(): exec_step = true; ...
ExecStep ==
    /\ ui_pc = "idle"
    /\ requests < MaxRequests
    /\ requests' = requests + 1
    /\ exec_step' = TRUE
    /\ ui_pc' = "ExecStep"
    /\ UNCHANGED <<win_vars, touch_vars, stop_run, running, running_guard, running_wait, running_mutex, pc,
                   was_active, failed_call, sr_pc, sr_arg, run_calls, pause_calls,
                   shutdown_calls, failures, errors, last_signal, needs_resume, ext_request,
                   wait_src, woken_by>>

\* ... running_cv.notify_all();
ExecStepNotify ==
    /\ ui_pc = "ExecStep"
    /\ pc' = Notified(pc)
    /\ ui_pc' = "idle"
    /\ UNCHANGED <<win_vars, touch_vars, stop_run, running, exec_step, running_guard, running_wait, running_mutex,
                   was_active, failed_call, sr_pc, sr_arg, requests, run_calls, pause_calls,
                   shutdown_calls, failures, errors, last_signal, needs_resume, ext_request,
                   wait_src, woken_by>>

\* ------------------------------------------------------------------------
\* EmuThread::run
\* ------------------------------------------------------------------------

\* The variables a step of run() that only moves on leaves alone.
EmuFrame == <<stop_run, running, exec_step, running_wait, sr_arg, ui_pc, requests,
              needs_resume, win_vars, touch_vars>>

\* LoopTest as it would be if a thrown error made the loop leave without the shutdown.
LoopTest_SkipShutdownAfterError ==
    /\ pc = "while"
    /\ pc' = IF stop_run THEN (IF errors > 0 THEN "done" ELSE "shutdown") ELSE "if_running"
    /\ UNCHANGED <<EmuFrame, running_guard, running_mutex, was_active, failed_call, sr_pc,
                   run_calls, pause_calls, shutdown_calls, failures, errors, last_signal,
                   ext_request, wait_src, woken_by>>

\* while (!stop_run)
LoopTest ==
    /\ pc = "while"
    /\ pc' = IF stop_run THEN "shutdown" ELSE "if_running"
    /\ UNCHANGED <<EmuFrame, running_guard, running_mutex, was_active, failed_call, sr_pc,
                   run_calls, pause_calls, shutdown_calls, failures, errors, last_signal,
                   ext_request, wait_src, woken_by>>

\* TestRunning as it would be if DebugModeLeft were never emitted.
TestRunning_NeverLeft ==
    /\ pc = "if_running"
    /\ pc' = IF running THEN "set_guard" ELSE "if_exec_step"
    /\ UNCHANGED <<EmuFrame, running_guard, running_mutex, was_active, failed_call, sr_pc,
                   run_calls, pause_calls, shutdown_calls, failures, errors, last_signal,
                   ext_request, wait_src, woken_by>>

\* if (running) { if (was_active) ...
TestRunning ==
    /\ pc = "if_running"
    /\ pc' = IF running THEN (IF was_active THEN "emit_left" ELSE "set_guard")
             ELSE "if_exec_step"
    /\ UNCHANGED <<EmuFrame, running_guard, running_mutex, was_active, failed_call, sr_pc,
                   run_calls, pause_calls, shutdown_calls, failures, errors, last_signal,
                   ext_request, wait_src, woken_by>>

\* emit DebugModeLeft();
EmitDebugModeLeft ==
    /\ pc = "emit_left"
    /\ last_signal' = "left"
    /\ pc' = "set_guard"
    /\ UNCHANGED <<EmuFrame, running_guard, running_mutex, was_active, failed_call, sr_pc,
                   run_calls, pause_calls, shutdown_calls, failures, errors,
                   ext_request, wait_src, woken_by>>

\* running_guard = true;
SetGuard ==
    /\ pc = "set_guard"
    /\ running_guard' = TRUE
    /\ pc' = "call_run"
    /\ UNCHANGED <<EmuFrame, running_mutex, was_active, failed_call, sr_pc,
                   run_calls, pause_calls, shutdown_calls, failures, errors, last_signal,
                   ext_request, wait_src, woken_by>>

\* Core::System::ResultStatus result = system.Run(); if (result != Success) ...
CallRun ==
    /\ pc = "call_run"
    /\ \E result \in ResultStatus :
         /\ run_calls' = run_calls + 1
         /\ ext_request' = FALSE
         /\ IF result # "Success"
            THEN /\ failures' = failures + 1
                 /\ failed_call' = "Run"
                 /\ pc' = "fail_guard"
                 /\ needs_resume' = TRUE
            ELSE /\ pc' = "wait"
                 /\ UNCHANGED <<failures, failed_call, needs_resume>>
    /\ UNCHANGED <<win_vars, touch_vars, stop_run, running, exec_step, running_wait, sr_arg, ui_pc, requests,
                   running_guard, running_mutex, was_active, sr_pc,
                   pause_calls, shutdown_calls, errors, last_signal, wait_src, woken_by>>

\* FailClearGuard as it would be without the call of SetRunning(false).
FailClearGuard_NoSetRunning ==
    /\ pc = "fail_guard"
    /\ running_guard' = FALSE
    /\ pc' = "emit_error"
    /\ UNCHANGED <<win_vars, touch_vars, stop_run, running, exec_step, running_wait, ui_pc, requests, needs_resume,
                   running_mutex, was_active, failed_call, sr_pc, sr_arg,
                   run_calls, pause_calls, shutdown_calls, failures, errors, last_signal,
                   ext_request, wait_src, woken_by>>

\* running_guard = false; this->SetRunning(false);   (in either failure branch)
FailClearGuard ==
    /\ pc = "fail_guard"
    /\ running_guard' = FALSE
    /\ pc' = "SetRunning"
    /\ sr_pc' = [sr_pc EXCEPT !["emu"] = "lock"]
    /\ sr_arg' = [sr_arg EXCEPT !["emu"] = FALSE]
    /\ UNCHANGED <<win_vars, touch_vars, stop_run, running, exec_step, running_wait, ui_pc, requests, needs_resume,
                   running_mutex, was_active, failed_call,
                   run_calls, pause_calls, shutdown_calls, failures, errors, last_signal,
                   ext_request, wait_src, woken_by>>

\* emit ErrorThrown(result, system.GetStatusDetails());
EmitErrorThrown ==
    /\ pc = "emit_error"
    /\ errors' = errors + 1
    /\ pc' = IF failed_call = "Run" THEN "wait" ELSE "clear_guard"
    /\ failed_call' = "none"
    /\ UNCHANGED <<EmuFrame, running_guard, running_mutex, was_active, sr_pc,
                   run_calls, pause_calls, shutdown_calls, failures, last_signal,
                   ext_request, wait_src, woken_by>>

\* Wait as it would be if it returned without running_wait having been set.
Wait_NoBlock ==
    /\ pc = "wait"
    /\ running_wait' = FALSE
    /\ woken_by' = wait_src
    /\ wait_src' = "none"
    /\ pc' = "call_pause"
    /\ UNCHANGED <<win_vars, touch_vars, stop_run, running, exec_step, sr_arg, ui_pc, requests, needs_resume,
                   running_guard, running_mutex, was_active, failed_call, sr_pc,
                   run_calls, pause_calls, shutdown_calls, failures, errors, last_signal,
                   ext_request>>

\* running_wait.Wait();   (Common::Event: blocks until set, then resets)
Wait ==
    /\ pc = "wait"
    /\ running_wait = TRUE
    /\ running_wait' = FALSE
    /\ woken_by' = wait_src
    /\ wait_src' = "none"
    /\ pc' = "call_pause"
    /\ UNCHANGED <<win_vars, touch_vars, stop_run, running, exec_step, sr_arg, ui_pc, requests, needs_resume,
                   running_guard, running_mutex, was_active, failed_call, sr_pc,
                   run_calls, pause_calls, shutdown_calls, failures, errors, last_signal,
                   ext_request>>

\* result = system.Pause(); if (result != Success) ...
CallPause ==
    /\ pc = "call_pause"
    /\ \E result \in ResultStatus :
         /\ pause_calls' = pause_calls + 1
         /\ IF result # "Success"
            THEN /\ failures' = failures + 1
                 /\ failed_call' = "Pause"
                 /\ pc' = "fail_guard"
                 /\ needs_resume' = TRUE
            ELSE /\ pc' = "clear_guard"
                 /\ UNCHANGED <<failures, failed_call, needs_resume>>
    /\ UNCHANGED <<win_vars, touch_vars, stop_run, running, exec_step, running_wait, sr_arg, ui_pc, requests,
                   running_guard, running_mutex, was_active, sr_pc,
                   run_calls, shutdown_calls, errors, last_signal, ext_request,
                   wait_src, woken_by>>

\* running_guard = false;
ClearGuard ==
    /\ pc = "clear_guard"
    /\ running_guard' = FALSE
    /\ pc' = "if_not_stop"
    /\ UNCHANGED <<EmuFrame, running_mutex, was_active, failed_call, sr_pc,
                   run_calls, pause_calls, shutdown_calls, failures, errors, last_signal,
                   ext_request, wait_src, woken_by>>

\* if (!stop_run) { was_active = true; emit DebugModeEntered(); }
EmitDebugModeEntered ==
    /\ pc = "if_not_stop"
    /\ IF ~stop_run
       THEN was_active' = TRUE /\ last_signal' = "entered"
       ELSE UNCHANGED <<was_active, last_signal>>
    /\ pc' = "while"
    /\ UNCHANGED <<EmuFrame, running_guard, running_mutex, failed_call, sr_pc,
                   run_calls, pause_calls, shutdown_calls, failures, errors,
                   ext_request, wait_src, woken_by>>

\* } else if (exec_step) {
TestExecStep ==
    /\ pc = "if_exec_step"
    /\ pc' = IF exec_step THEN "unimplemented" ELSE "cv_lock"
    /\ UNCHANGED <<EmuFrame, running_guard, running_mutex, was_active, failed_call, sr_pc,
                   run_calls, pause_calls, shutdown_calls, failures, errors, last_signal,
                   ext_request, wait_src, woken_by>>

\* UNIMPLEMENTED();   (reports and goes on: exec_step is left as it is)
Unimplemented ==
    /\ pc = "unimplemented"
    /\ pc' = "while"
    /\ UNCHANGED <<EmuFrame, running_guard, running_mutex, was_active, failed_call, sr_pc,
                   run_calls, pause_calls, shutdown_calls, failures, errors, last_signal,
                   ext_request, wait_src, woken_by>>

\* std::unique_lock lock{running_mutex};   (also the re-lock when the wait is notified)
CvLock ==
    /\ pc = "cv_lock"
    /\ running_mutex = "free"
    /\ running_mutex' = "emu"
    /\ pc' = "cv_pred"
    /\ UNCHANGED <<EmuFrame, running_guard, was_active, failed_call, sr_pc,
                   run_calls, pause_calls, shutdown_calls, failures, errors, last_signal,
                   ext_request, wait_src, woken_by>>

\* WaitPredicate as it would be without the stop flag.
WaitPredicate_NoStop == running \/ exec_step

\* the predicate of running_cv.wait: IsRunning() || exec_step || stop_run
WaitPredicate == running \/ exec_step \/ stop_run

\* running_cv.wait(lock, pred): the predicate is evaluated with the mutex held
CvPredicate ==
    /\ pc = "cv_pred"
    /\ IF WaitPredicate
       THEN pc' = "while" /\ running_mutex' = "free"
       ELSE pc' = "cv_sleep" /\ UNCHANGED running_mutex
    /\ UNCHANGED <<EmuFrame, running_guard, was_active, failed_call, sr_pc,
                   run_calls, pause_calls, shutdown_calls, failures, errors, last_signal,
                   ext_request, wait_src, woken_by>>

\* running_cv.wait: the mutex is released and the thread blocks, atomically
CvSleep ==
    /\ pc = "cv_sleep"
    /\ running_mutex' = "free"
    /\ pc' = "cv_blocked"
    /\ UNCHANGED <<EmuFrame, running_guard, was_active, failed_call, sr_pc,
                   run_calls, pause_calls, shutdown_calls, failures, errors, last_signal,
                   ext_request, wait_src, woken_by>>

\* system.Shutdown();
Shutdown ==
    /\ pc = "shutdown"
    /\ shutdown_calls' = shutdown_calls + 1
    /\ pc' = "done"
    /\ UNCHANGED <<EmuFrame, running_guard, running_mutex, was_active, failed_call, sr_pc,
                   run_calls, pause_calls, failures, errors, last_signal,
                   ext_request, wait_src, woken_by>>

\* A step of the emulation thread.
EmuStep ==
    \/ LoopTest \/ TestRunning \/ EmitDebugModeLeft \/ SetGuard \/ CallRun
    \/ FailClearGuard \/ EmitErrorThrown \/ Wait \/ CallPause \/ ClearGuard
    \/ EmitDebugModeEntered \/ TestExecStep \/ Unimplemented
    \/ CvLock \/ CvPredicate \/ CvSleep \/ Shutdown
    \/ SetRunningLock("emu") \/ SetRunningWrite("emu") \/ SetRunningNotify("emu")
    \/ SetRunningSet("emu") \/ SetRunningSpin("emu")

\* A step of a request the UI thread has begun.
UIStep ==
    \/ SetRunningLock("ui") \/ SetRunningWrite("ui") \/ SetRunningNotify("ui")
    \/ SetRunningSet("ui") \/ SetRunningSpin("ui") \/ ExecStepNotify

\* ------------------------------------------------------------------------
\* GRenderWindow: render target contexts
\* ------------------------------------------------------------------------

\* The build modelled is one with both backends: HAS_OPENGL and HAS_VULKAN are
\* defined.
has_opengl == TRUE

has_vulkan == TRUE

\* Settings::RendererBackend
Backends == {"OpenGL", "Vulkan"}

\* A null main_context or child_context.
NullContext == [kind |-> "null", gl |-> FALSE, target |-> 0]

\* An OpenGLSharedContext made for render target n; gl tells whether its m_context
\* is not null, i.e. whether GLContext::Create succeeded.
OpenGLSharedContext(ok, n) == [kind |-> "OpenGL", gl |-> ok, target |-> n]

\* A DummyContext made for render target n.
DummyContext(n) == [kind |-> "Dummy", gl |-> FALSE, target |-> n]

\* ~OpenGLSharedContext calls DoneCurrent(), which calls m_context->ClearCurrent().
DestructorDerefsNull(c) == c.kind = "OpenGL" /\ ~c.gl

\* The contexts ReleaseRenderTarget resets, in the order it resets them.
ReleaseOrder(main, child) ==
    (IF child.kind # "null" THEN <<"child">> ELSE <<>>)
        \o (IF main.kind # "null" THEN <<"main">> ELSE <<>>)

\* InitializeOpenGL as it would be without main_context = context.
InitializeOpenGL_MainNotStored(old, main_gl, child_gl, shared_main, shared_child, n) ==
    IF ~has_opengl
    THEN [ret |-> FALSE, main |-> NullContext, child |-> NullContext,
          deref |-> FALSE, failed |-> FALSE]
    ELSE IF ~old /\ ~main_gl
    THEN [ret |-> FALSE, main |-> NullContext, child |-> NullContext,
          deref |-> FALSE, failed |-> TRUE]
    ELSE [ret |-> TRUE,
          main |-> NullContext,
          child |-> OpenGLSharedContext(shared_child, n),
          deref |-> (old /\ ~main_gl) \/ (~shared_main /\ shared_child),
          failed |-> ~main_gl \/ ~child_gl \/ ~shared_main \/ ~shared_child]

\* GRenderWindow::InitializeOpenGL. old: g_first_context is not null; main_gl,
\* child_gl, shared_main, shared_child: whether the four GLContext::Create calls
\* succeed (the two locals, then the two OpenGLSharedContext constructors).
InitializeOpenGL(old, main_gl, child_gl, shared_main, shared_child, n) ==
    IF ~has_opengl
    THEN [ret |-> FALSE, main |-> NullContext, child |-> NullContext,
          deref |-> FALSE, failed |-> FALSE]
    ELSE IF ~old /\ ~main_gl
    THEN [ret |-> FALSE, main |-> NullContext, child |-> NullContext,
          deref |-> FALSE, failed |-> TRUE]
    ELSE [ret |-> TRUE,
          main |-> OpenGLSharedContext(shared_main, n),
          child |-> OpenGLSharedContext(shared_child, n),
          \* main_gl_context->ShareWith(...) with main_gl_context null;
          \* share_context->ShareWith(...) with share_context null
          deref |-> (old /\ ~main_gl) \/ (~shared_main /\ shared_child),
          failed |-> ~main_gl \/ ~child_gl \/ ~shared_main \/ ~shared_child]

\* GRenderWindow::InitializeVulkan
InitializeVulkan(n) ==
    IF has_vulkan
    THEN [ret |-> TRUE, main |-> DummyContext(n), child |-> NullContext,
          deref |-> FALSE, failed |-> FALSE]
    ELSE [ret |-> FALSE, main |-> NullContext, child |-> NullContext,
          deref |-> FALSE, failed |-> FALSE]

\* CreateSharedContext has not run.
NoSharedContext == [backend |-> "none", main |-> NullContext, ctx |-> NullContext,
                    undefined |-> FALSE]

\* GRenderWindow::CreateSharedContext. backend: the renderer_backend it reads;
\* main: main_context; shared: GLContext::Create succeeds in the constructor of
\* the context it makes. undefined: main_context was null or a DummyContext when
\* it was cast to OpenGLSharedContext* and used, or the constructor called
\* ShareWith on a null share context.
CreateSharedContext(backend, main, shared) ==
    IF has_opengl /\ backend = "OpenGL"
    THEN [backend |-> backend, main |-> main,
          ctx |-> OpenGLSharedContext(shared, main.target),
          undefined |-> \/ main.kind # "OpenGL"
                        \/ shared /\ ~main.gl]
    ELSE [backend |-> backend, main |-> main,
          ctx |-> DummyContext(main.target), undefined |-> FALSE]

\* GRenderWindow::LoadOpenGL, with CreateSharedContext as it calls it on an OpenGL
\* main context. shared: GLContext::Create succeeds in the context it makes.
LoadOpenGL(main, shared, glad, extensions) ==
    [ret |-> glad /\ extensions,
     \* share_context->ShareWith with a null share context; context->Acquire() and
     \* the destructor on a context whose m_context is null
     deref |-> (shared /\ ~main.gl) \/ ~shared,
     failed |-> ~shared]

\* The variables about render targets.
render_vars == <<main_context, child_context, first_frame, inits, init_result,
                 init_backend, create_failed, loader_ok, release_log, frames_since_init,
                 polled_since_init, created>>

\* FirstFrameAfterInit as it would be if InitRenderTarget left first_frame alone.
FirstFrameAfterInit_Kept == first_frame

\* first_frame = false;   (the value InitRenderTarget gives first_frame)
FirstFrameAfterInit == FALSE

\* Calls of InitRenderTarget made in a run of the model.
MaxInits == 2

\* ------------------------------------------------------------------------
\* GRenderWindow: geometry
\* ------------------------------------------------------------------------

\* Window positions 0..MaxPos; position MaxPos is off the screen.
MaxPos == 1

Positions == 0..MaxPos

\* Where the window system puts a window asked to be at pos.
OnScreen(pos) == IF pos = MaxPos THEN 0 ELSE pos

\* Window sizes; "undocked" is Layout::ScreenUndocked::Width x Height.
Sizes == {"undocked", "other"}

Geometries == Positions \X Sizes

\* QWidget::saveGeometry(): the widget's geometry behind a magic header.
QWidgetSaveGeometry(g) == <<"QGeometry", g[1], g[2]>>

\* The byte arrays callers give to restoreGeometry.
ByteArrays ==
    {<<>>} \cup {<<m, g[1], g[2]>> : m \in {"QGeometry", "other"}, g \in Geometries}

\* QWidget::restoreGeometry(bytes): the geometry the widget has afterwards. Bytes
\* without the header are refused; a position off the screen is moved onto it.
QWidgetRestoreGeometry(bytes, current) ==
    IF Len(bytes) = 3 /\ bytes[1] = "QGeometry"
    THEN <<OnScreen(bytes[2]), bytes[3]>>
    ELSE current

\* resize(Layout::ScreenUndocked::Width, Layout::ScreenUndocked::Height);
Resized(g) == <<g[1], "undocked">>

\* SaveGeometryResult as it would be if the widget's geometry were always stored.
SaveGeometryResult_AlwaysCurrent == QWidgetSaveGeometry(widget_geometry)

\* GRenderWindow::saveGeometry, its return value
SaveGeometryResult ==
    IF ~has_parent THEN QWidgetSaveGeometry(widget_geometry) ELSE geometry

\* ------------------------------------------------------------------------
\* GRenderWindow: the calls
\* ------------------------------------------------------------------------

\* What a GLContext::Create, gladLoadGL or extension test may give: anything when
\* InitRenderTarget gets to it, and a fixed value when it does not.
CreateResults(reached) == IF reached THEN BOOLEAN ELSE {TRUE}

\* GRenderWindow::InitRenderTarget, with ReleaseRenderTarget, InitializeOpenGL or
\* InitializeVulkan, BackupGeometry and LoadOpenGL as it calls them. A null
\* dereference either ends the process or goes unnoticed (survives).
InitRenderTarget ==
    /\ ~crashed
    /\ inits < MaxInits
    /\ \E main_gl \in CreateResults(renderer_backend = "OpenGL" /\ has_opengl) :
       \E child_gl, shared_main, shared_child, shared_load, glad
               \in CreateResults(/\ renderer_backend = "OpenGL" /\ has_opengl
                                 /\ (g_first_context \/ main_gl)) :
       \E extensions \in CreateResults(/\ renderer_backend = "OpenGL" /\ has_opengl
                                        /\ (g_first_context \/ main_gl) /\ glad) :
        LET n == inits + 1
            opengl == renderer_backend = "OpenGL"
            init == IF opengl
                    THEN InitializeOpenGL(g_first_context, main_gl, child_gl,
                                          shared_main, shared_child, n)
                    ELSE InitializeVulkan(n)
            load == IF opengl /\ init.ret
                    THEN LoadOpenGL(init.main, shared_load, glad, extensions)
                    ELSE [ret |-> TRUE, deref |-> FALSE, failed |-> FALSE]
            deref == \/ DestructorDerefsNull(child_context)
                     \/ DestructorDerefsNull(main_context)
                     \/ init.deref
                     \/ load.deref
        IN  \E survives \in (IF deref THEN BOOLEAN ELSE {TRUE}) :
            /\ inits' = n
            /\ last_op' = "InitRenderTarget"
            /\ release_log' = ReleaseOrder(main_context, child_context)
            /\ null_deref' = deref
            /\ init_backend' = renderer_backend
            /\ create_failed' = (init.failed \/ load.failed)
            /\ first_frame' = FirstFrameAfterInit
            /\ created' = IF opengl /\ init.ret
                          THEN CreateSharedContext(renderer_backend, init.main, shared_load)
                          ELSE created
            /\ frames_since_init' = 0
            /\ polled_since_init' = FALSE
            /\ saved' = <<>>
            /\ IF deref /\ ~survives
               THEN /\ crashed' = TRUE
                    /\ main_context' = NullContext
                    /\ child_context' = NullContext
                    /\ init_result' = "none"
                    /\ loader_ok' = FALSE
                    /\ UNCHANGED <<widget_geometry, geometry>>
               ELSE /\ crashed' = FALSE
                    /\ main_context' = init.main
                    /\ child_context' = init.child
                    /\ init_result' = IF init.ret /\ load.ret THEN "true" ELSE "false"
                    /\ loader_ok' = (opengl /\ init.ret /\ load.ret)
                    /\ widget_geometry' = IF init.ret THEN Resized(widget_geometry)
                                          ELSE widget_geometry
                    /\ geometry' = IF init.ret
                                   THEN QWidgetSaveGeometry(Resized(widget_geometry))
                                   ELSE geometry
    /\ UNCHANGED <<emu_vars, touch_vars, renderer_backend,
                   g_first_context, has_parent>>

\* GRenderWindow::ReleaseRenderTarget
ReleaseRenderTarget ==
    /\ ~crashed
    /\ LET deref == \/ DestructorDerefsNull(child_context)
                     \/ DestructorDerefsNull(main_context)
       IN  \E survives \in (IF deref THEN BOOLEAN ELSE {TRUE}) :
            /\ null_deref' = deref
            /\ crashed' = (deref /\ ~survives)
    /\ release_log' = ReleaseOrder(main_context, child_context)
    /\ child_context' = NullContext
    /\ main_context' = NullContext
    /\ init_result' = "none"
    /\ last_op' = "ReleaseRenderTarget"
    /\ saved' = <<>>
    /\ UNCHANGED <<emu_vars, touch_vars, renderer_backend,
                   g_first_context, first_frame, geometry, widget_geometry, has_parent,
                   inits, init_backend, create_failed, loader_ok, frames_since_init,
                   polled_since_init, created>>

\* The core, setting up its renderer, calls GRenderWindow::CreateSharedContext.
\* Undefined behaviour either ends the process or goes unnoticed.
RendererCreatesSharedContext ==
    /\ ~crashed
    /\ \E shared \in CreateResults(renderer_backend = "OpenGL" /\ has_opengl) :
        LET r == CreateSharedContext(renderer_backend, main_context, shared)
        IN  /\ created' = r
            /\ null_deref' = r.undefined
            /\ \E survives \in (IF r.undefined THEN BOOLEAN ELSE {TRUE}) :
                  crashed' = ~survives
    /\ last_op' = "CreateSharedContext"
    /\ saved' = <<>>
    /\ UNCHANGED <<emu_vars, touch_vars, renderer_backend, g_first_context,
                   main_context, child_context, first_frame, geometry, widget_geometry,
                   has_parent, inits, init_result, init_backend, create_failed,
                   loader_ok, release_log, frames_since_init, polled_since_init>>

\* GRenderWindow::PollEvents
PollEvents ==
    /\ ~crashed
    /\ IF ~first_frame
       THEN /\ first_frame' = TRUE
            /\ frames_since_init' = frames_since_init + 1
       ELSE UNCHANGED <<first_frame, frames_since_init>>
    /\ polled_since_init' = TRUE
    /\ last_op' = "PollEvents"
    /\ saved' = <<>>
    /\ UNCHANGED <<emu_vars, touch_vars, renderer_backend,
                   g_first_context, main_context, child_context, geometry,
                   widget_geometry, has_parent, crashed, inits, init_result,
                   init_backend, create_failed, loader_ok, null_deref, release_log,
                   created>>

\* GRenderWindow::BackupGeometry
BackupGeometry ==
    /\ ~crashed
    /\ geometry' = QWidgetSaveGeometry(widget_geometry)
    /\ last_op' = "BackupGeometry"
    /\ saved' = <<>>
    /\ UNCHANGED <<emu_vars, touch_vars, renderer_backend,
                   g_first_context, render_vars, widget_geometry, has_parent, crashed,
                   null_deref>>

\* GRenderWindow::RestoreGeometry
RestoreGeometry ==
    /\ ~crashed
    /\ widget_geometry' = QWidgetRestoreGeometry(geometry, widget_geometry)
    /\ last_op' = "RestoreGeometry"
    /\ saved' = <<>>
    /\ UNCHANGED <<emu_vars, touch_vars, renderer_backend,
                   g_first_context, render_vars, geometry, has_parent, crashed,
                   null_deref>>

\* GRenderWindow::restoreGeometry(const QByteArray& geometry)
restoreGeometry(bytes) ==
    /\ ~crashed
    /\ widget_geometry' = QWidgetRestoreGeometry(bytes, widget_geometry)
    /\ geometry' = QWidgetSaveGeometry(QWidgetRestoreGeometry(bytes, widget_geometry))
    /\ last_op' = "restoreGeometry"
    /\ saved' = <<>>
    /\ UNCHANGED <<emu_vars, touch_vars, renderer_backend,
                   g_first_context, render_vars, has_parent, crashed, null_deref>>

\* GRenderWindow::saveGeometry
saveGeometry ==
    /\ ~crashed
    /\ saved' = SaveGeometryResult
    /\ last_op' = "saveGeometry"
    /\ UNCHANGED <<emu_vars, touch_vars, renderer_backend,
                   g_first_context, render_vars, geometry, widget_geometry, has_parent,
                   crashed, null_deref>>

\* The user, or the layout, moves or resizes the widget.
MoveResize(g) ==
    /\ ~crashed
    /\ g # widget_geometry
    /\ widget_geometry' = g
    /\ last_op' = "MoveResize"
    /\ saved' = <<>>
    /\ UNCHANGED <<emu_vars, touch_vars, renderer_backend,
                   g_first_context, render_vars, geometry, has_parent, crashed,
                   null_deref>>

\* The main window takes the widget in (setParent(main window)) or lets it go.
SetParent(p) ==
    /\ ~crashed
    /\ p # has_parent
    /\ has_parent' = p
    /\ last_op' = "SetParent"
    /\ saved' = <<>>
    /\ UNCHANGED <<emu_vars, touch_vars, renderer_backend,
                   g_first_context, render_vars, geometry, widget_geometry, crashed,
                   null_deref>>

\* The configuration dialog sets Settings::values.renderer_backend.
SetRendererBackend(b) ==
    /\ ~crashed
    /\ b # renderer_backend
    /\ renderer_backend' = b
    /\ last_op' = "SetRendererBackend"
    /\ saved' = <<>>
    /\ UNCHANGED <<emu_vars, touch_vars, g_first_context,
                   render_vars, geometry, widget_geometry, has_parent, crashed,
                   null_deref>>

\* The video backend creates (or destroys) the first GL context, g_first_context.
SetFirstContext(c) ==
    /\ ~crashed
    /\ c # g_first_context
    /\ g_first_context' = c
    /\ last_op' = "SetFirstContext"
    /\ saved' = <<>>
    /\ UNCHANGED <<emu_vars, touch_vars, renderer_backend,
                   render_vars, geometry, widget_geometry, has_parent, crashed,
                   null_deref>>

\* GRenderWindow::GRenderWindow
WindowConstructed ==
    /\ renderer_backend = "OpenGL"
    /\ g_first_context = FALSE
    /\ main_context = NullContext
    /\ child_context = NullContext
    /\ first_frame = FALSE
    /\ geometry = <<>>
    /\ widget_geometry = <<0, "other">>
    /\ has_parent = TRUE
    /\ crashed = FALSE
    /\ last_op = "none"
    /\ inits = 0
    /\ init_result = "none"
    /\ init_backend = "none"
    /\ create_failed = FALSE
    /\ loader_ok = FALSE
    /\ null_deref = FALSE
    /\ release_log = <<>>
    /\ frames_since_init = 0
    /\ polled_since_init = FALSE
    /\ saved = <<>>
    /\ created = NoSharedContext

\* ------------------------------------------------------------------------
\* GRenderWindow: touch events
\* ------------------------------------------------------------------------

\* Touch positions have x in -1..MaxCoord.
MaxCoord == 1

\* Touch points in one event.
MaxPoints == 2

XCoords == -1..MaxCoord

YCoords == {-1, 1}

\* Qt::TouchPointState
TouchPointStates == {"Pressed", "Moved", "Stationary", "Released"}

\* Qt::TouchPointPressed | Qt::TouchPointMoved | Qt::TouchPointStationary
ActiveStates == {"Pressed", "Moved", "Stationary"}

TouchPoints == [x : XCoords, y : YCoords, state : TouchPointStates]

PointLists == UNION {[1..n -> TouchPoints] : n \in 0..MaxPoints}

\* The events delivered to event(); a TouchBegin has a touch point.
TouchEvents ==
    {e \in [type : {"TouchBegin", "TouchUpdate", "TouchEnd", "TouchCancel", "Other"},
            points : PointLists] :
        e.type = "TouchBegin" => Len(e.points) >= 1}

\* devicePixelRatioF(): 1, 1.5 and 2
PixelRatios == {<<1, 1>>, <<3, 2>>, <<2, 1>>}

\* std::round of num/den (den > 0): to the nearest integer, halves away from zero
Round(num, den) ==
    IF num >= 0 THEN (2 * num + den) \div (2 * den)
    ELSE -((2 * (-num) + den) \div (2 * den))

\* One coordinate of ScaleTouch, for a position num/den:
\* static_cast<u32>(std::max(std::round(pos * pixel_ratio), qreal{0.0}))
ScaleTouch(num, den) ==
    LET r == Round(num * pixel_ratio[1], den * pixel_ratio[2])
    IN  IF r > 0 THEN r ELSE 0

\* The touch points TouchUpdateEvent adds up.
ActivePoints(points) == SelectSeq(points, LAMBDA tp : tp.state \in ActiveStates)

RECURSIVE SumX(_)
SumX(points) == IF points = <<>> THEN 0 ELSE Head(points).x + SumX(Tail(points))

RECURSIVE SumY(_)
SumY(points) == IF points = <<>> THEN 0 ELSE Head(points).y + SumY(Tail(points))

TouchFrame == <<emu_vars, win_vars, pixel_ratio, touch_event>>

\* event() on a TouchBegin: GRenderWindow::TouchBeginEvent
TouchBeginEvent ==
    /\ ~touch_handled
    /\ touch_event.type = "TouchBegin"
    /\ LET first == touch_event.points[1]
       IN  touch_calls' = <<[call |-> "TouchPressed",
                             x |-> ScaleTouch(first.x, 1),
                             y |-> ScaleTouch(first.y, 1)]>>
    /\ touch_undefined' = FALSE
    /\ touch_handled' = TRUE
    /\ UNCHANGED TouchFrame

\* event() on a TouchUpdate: GRenderWindow::TouchUpdateEvent. With no active point
\* pos /= active_points divides by zero and the conversion to u32 is undefined:
\* any coordinates may come out.
TouchUpdateEvent ==
    /\ ~touch_handled
    /\ touch_event.type = "TouchUpdate"
    /\ LET active == ActivePoints(touch_event.points)
           active_points == Len(active)
       IN  IF active_points = 0
           THEN /\ \E x, y \in 0..MaxCoord :
                     touch_calls' = <<[call |-> "TouchMoved", x |-> x, y |-> y]>>
                /\ touch_undefined' = TRUE
           ELSE /\ touch_calls' = <<[call |-> "TouchMoved",
                                     x |-> ScaleTouch(SumX(active), active_points),
                                     y |-> ScaleTouch(SumY(active), active_points)]>>
                /\ touch_undefined' = FALSE
    /\ touch_handled' = TRUE
    /\ UNCHANGED TouchFrame

\* event() on a TouchEnd or TouchCancel: GRenderWindow::TouchEndEvent
TouchEndEvent ==
    /\ ~touch_handled
    /\ touch_event.type \in {"TouchEnd", "TouchCancel"}
    /\ touch_calls' = <<[call |-> "TouchReleased", x |-> 0, y |-> 0]>>
    /\ touch_undefined' = FALSE
    /\ touch_handled' = TRUE
    /\ UNCHANGED TouchFrame

\* event() on any other event: QWidget::event
OtherEvent ==
    /\ ~touch_handled
    /\ touch_event.type = "Other"
    /\ touch_calls' = <<>>
    /\ touch_undefined' = FALSE
    /\ touch_handled' = TRUE
    /\ UNCHANGED TouchFrame

\* No touch event is under way.
TouchIdle ==
    /\ pixel_ratio = <<1, 1>>
    /\ touch_event = [type |-> "Other", points |-> <<>>]
    /\ touch_handled = TRUE
    /\ touch_calls = <<>>
    /\ touch_undefined = FALSE

\* A touch event arrives at a window of some pixel ratio.
TouchDelivered ==
    /\ pixel_ratio \in PixelRatios
    /\ touch_event \in TouchEvents
    /\ touch_handled = FALSE
    /\ touch_calls = <<>>
    /\ touch_undefined = FALSE
\* The state when run() reaches its loop.
InitEmu ==
    /\ stop_run = FALSE
    /\ running = FALSE
    /\ exec_step = FALSE
    /\ running_guard = FALSE
    /\ running_wait = FALSE
    /\ running_mutex = "free"
    /\ pc = "while"
    /\ was_active = FALSE
    /\ failed_call = "none"
    /\ sr_pc = [t \in Threads |-> "none"]
    /\ sr_arg = [t \in Threads |-> FALSE]
    /\ ui_pc = "idle"
    /\ requests = 0
    /\ run_calls = 0
    /\ pause_calls = 0
    /\ shutdown_calls = 0
    /\ failures = 0
    /\ errors = 0
    /\ last_signal = "none"
    /\ needs_resume = FALSE
    /\ ext_request = FALSE
    /\ wait_src = "none"
    /\ woken_by = "none"

Init == InitEmu /\ WindowConstructed /\ TouchIdle

Next ==
    \/ LoopTest \/ TestRunning \/ EmitDebugModeLeft \/ SetGuard \/ CallRun
    \/ FailClearGuard \/ EmitErrorThrown \/ Wait \/ CallPause \/ ClearGuard
    \/ EmitDebugModeEntered \/ TestExecStep \/ Unimplemented
    \/ CvLock \/ CvPredicate \/ CvSleep \/ Shutdown
    \/ \E t \in Threads : SetRunningLock(t)
    \/ \E t \in Threads : SetRunningWrite(t)
    \/ \E t \in Threads : SetRunningNotify(t)
    \/ \E t \in Threads : SetRunningSet(t)
    \/ \E t \in Threads : SetRunningSpin(t)
    \/ \E b \in BOOLEAN : UISetRunning(b)
    \/ RequestStop
    \/ ExecStep
    \/ ExecStepNotify

Spec == Init /\ [][Next]_vars

\* The scheduler runs the emulation thread whenever it can take a step, and the
\* UI thread finishes a request it has begun.
FairSpec == Spec /\ WF_vars(EmuStep) /\ WF_vars(UIStep)

\* The render window: the calls the main window and the renderer make of it.
InitWindow == InitEmu /\ WindowConstructed /\ TouchIdle

NextWindow ==
    \/ InitRenderTarget
    \/ ReleaseRenderTarget
    \/ PollEvents
    \/ \E b \in Backends : SetRendererBackend(b)
    \/ \E c \in BOOLEAN : SetFirstContext(c)
    \/ RendererCreatesSharedContext

SpecWindow == InitWindow /\ [][NextWindow]_vars

\* The render window's geometry: the calls the main window makes when it takes
\* the widget in or lets it go, and a render target being set up.
NextGeometry ==
    \/ InitRenderTarget
    \/ BackupGeometry
    \/ RestoreGeometry
    \/ \E bytes \in ByteArrays : restoreGeometry(bytes)
    \/ saveGeometry
    \/ \E g \in Geometries : MoveResize(g)
    \/ \E p \in BOOLEAN : SetParent(p)

SpecGeometry == Init /\ [][NextGeometry]_vars

\* The render window's event(): one event, handled.
InitTouch == InitEmu /\ WindowConstructed /\ TouchDelivered

NextTouch ==
    \/ TouchBeginEvent
    \/ TouchUpdateEvent
    \/ TouchEndEvent
    \/ OtherEvent

SpecTouch == InitTouch /\ [][NextTouch]_vars

\* ------------------------------------------------------------------------
\* Properties of EmuThread::run
\* ------------------------------------------------------------------------

\* The emulation thread is between its call of system.Run() and the return of the
\* system.Pause() that follows it.
InRunCall ==
    \/ pc \in {"call_run", "wait", "call_pause"}
    \/ pc \in {"fail_guard", "SetRunning", "emit_error"} /\ failed_call = "Run"

\* The emulation thread is blocked in running_cv.wait.
InIdleWait == pc \in {"cv_sleep", "cv_blocked"}

\* The emulation thread has left the loop.
LeftLoop == pc \in {"shutdown", "done"}

\* The emulation thread cannot take a step.
Blocked ==
    \/ pc = "cv_blocked"
    \/ pc = "wait" /\ ~running_wait
    \/ pc = "cv_lock" /\ running_mutex # "free"
    \/ pc = "SetRunning" /\ sr_pc["emu"] = "lock" /\ running_mutex # "free"
    \/ pc = "SetRunning" /\ sr_pc["emu"] = "spin" /\ running_guard

\* C1: once a stop is requested the loop exits and system.Shutdown() is called
\* exactly once, whether or not an earlier Run() or Pause() failed; Shutdown() is
\* called only after a stop request, and after it the thread calls neither
\* system.Run() nor system.Pause().
C1_ShutdownExactlyOnce ==
    /\ [](shutdown_calls <= 1)
    /\ [](shutdown_calls = 1 => stop_run)
    /\ [](pc = "done" => shutdown_calls = 1)
    /\ [][shutdown_calls = 1 => run_calls' = run_calls /\ pause_calls' = pause_calls]_vars
    /\ (stop_run ~> (pc = "done" /\ shutdown_calls = 1))

\* C1 witness: the thread has shut the system down after an earlier failure.
C1_Witness == pc = "done" /\ shutdown_calls = 1 /\ errors > 0

\* C2: a Run() or Pause() that fails sets running to false and emits one
\* ErrorThrown for that call, and the loop calls Run() again only after running
\* was set to true from outside the loop.
C2_FailureStopsLoop ==
    /\ [](errors <= failures /\ failures <= errors + 1)
    /\ [](failed_call = "none" <=> errors = failures)
    /\ [][(pc = "SetRunning" /\ sr_pc["emu"] = "write" /\ sr_pc'["emu"] # "write")
             => running' = FALSE]_vars
    /\ [][errors' # errors => errors' = errors + 1 /\ failures = errors + 1]_vars
    /\ [][run_calls' # run_calls => ~needs_resume]_vars

\* C2 witness: Run() was called again after a failure and a resume from outside.
C2_Witness == errors >= 1 /\ run_calls >= 2 /\ pc = "wait" /\ ~needs_resume

\* C3: running_guard is true from the call of system.Run() until the following
\* system.Pause() has returned, and false while the thread is blocked in the idle
\* wait or has left the loop.
C3_GuardCoversRunCall ==
    /\ InRunCall => running_guard
    /\ (InIdleWait \/ LeftLoop) => ~running_guard

\* C4 as claimed: every Pause() is preceded by an external pause or stop request
\* issued after the matching Run() call, and every Run() is followed by exactly one
\* Pause() before the next Run() or Shutdown().
C4_PauseOnlyAfterExternalRequest ==
    /\ pc = "call_pause" => ext_request
    /\ (run_calls = pause_calls + 1) <=> (InRunCall /\ pc # "call_run")
    /\ ~(InRunCall /\ pc # "call_run") => run_calls = pause_calls

\* C4 as amended: every Pause() is preceded by a SetRunning(false) that set
\* running_wait since the previous Wait() returned (an external pause or stop
\* request, or the loop's own SetRunning(false) after a failure), and every Run()
\* is followed by exactly one Pause() before the next Run() or Shutdown().
C4_PauseOnlyAfterSignal ==
    /\ pc = "call_pause" => woken_by \in Threads
    /\ pause_calls > 0 => woken_by \in Threads
    /\ (run_calls = pause_calls + 1) <=> (InRunCall /\ pc # "call_run")
    /\ ~(InRunCall /\ pc # "call_run") => run_calls = pause_calls

\* C4 witness: Pause() is about to be called after a Run() that no external
\* request followed.
C4_Witness == pc = "call_pause" /\ ~ext_request /\ run_calls = pause_calls + 1

C6_InitResultFaithful ==
    /\ init_result = "true" =>
         IF init_backend = "OpenGL"
         THEN /\ main_context.kind = "OpenGL" /\ main_context.gl
              /\ child_context.kind = "OpenGL" /\ child_context.gl
              /\ loader_ok
              /\ ~create_failed
         ELSE main_context.kind = "Dummy"
    /\ (last_op = "InitRenderTarget" /\ create_failed) =>
         (init_result = "false" /\ ~null_deref)

\* C7: between two InitRenderTarget calls FirstFrameDisplayed is emitted by the
\* first PollEvents and by no later one.
C7_FirstFrameOneShot ==
    /\ frames_since_init <= 1
    /\ inits > 0 => (frames_since_init = IF polled_since_init THEN 1 ELSE 0)

\* C7 witness: the notification was emitted again after a second InitRenderTarget.
C7_Witness == inits >= 2 /\ polled_since_init /\ frames_since_init = 1 /\ ~crashed

\* C8: child_context is non-null only if main_context is; after
\* ReleaseRenderTarget both are null; after a successful InitRenderTarget with
\* OpenGL both are OpenGL contexts of the new render target, with Vulkan
\* main_context is a dummy context and child_context is null; the contexts held
\* before were released, child before main, and none of them is kept.
C8_ContextPair ==
    /\ child_context.kind # "null" => main_context.kind # "null"
    /\ last_op = "ReleaseRenderTarget" =>
         (main_context = NullContext /\ child_context = NullContext)
    /\ (init_result = "true" /\ init_backend = "OpenGL") =>
         /\ main_context.kind = "OpenGL" /\ main_context.target = inits
         /\ child_context.kind = "OpenGL" /\ child_context.target = inits
    /\ (init_result = "true" /\ init_backend = "Vulkan") =>
         /\ main_context = DummyContext(inits)
         /\ child_context = NullContext
    /\ release_log \in {<<>>, <<"main">>, <<"child", "main">>}
    /\ main_context.kind # "null" => main_context.target = inits
    /\ child_context.kind # "null" => child_context.target = inits

\* C8 witness: a second OpenGL render target has replaced the first, whose two
\* contexts were released.
C8_Witness ==
    /\ inits >= 2
    /\ init_result = "true"
    /\ init_backend = "OpenGL"
    /\ last_op = "InitRenderTarget"
    /\ release_log = <<"child", "main">>

\* C9: saveGeometry returns the widget's geometry when it has no parent and the
\* backup when it has one; restoreGeometry(g) applies g and backs up the geometry
\* that results, so a following saveGeometry on a parented widget returns it;
\* RestoreGeometry applies the backup and leaves the backup as it is.
C9_GeometryBackup ==
    /\ [](last_op = "saveGeometry" =>
            IF has_parent THEN saved = geometry
            ELSE saved = <<"QGeometry", widget_geometry[1], widget_geometry[2]>>)
    /\ [](last_op = "restoreGeometry" =>
            geometry = <<"QGeometry", widget_geometry[1], widget_geometry[2]>>)
    /\ [][(last_op = "restoreGeometry" /\ last_op' = "saveGeometry" /\ has_parent) =>
            saved' = <<"QGeometry", widget_geometry[1], widget_geometry[2]>>]_vars
    /\ [][last_op' = "RestoreGeometry" =>
            /\ geometry' = geometry
            /\ (geometry # <<>> =>
                  widget_geometry' = <<OnScreen(geometry[2]), geometry[3]>>)
            /\ (geometry = <<>> => widget_geometry' = widget_geometry)]_vars

\* C9 witness: saveGeometry on a parented widget returned a backup that is not
\* the widget's present geometry.
C9_Witness ==
    /\ last_op = "saveGeometry"
    /\ has_parent
    /\ saved # <<>>
    /\ saved # <<"QGeometry", widget_geometry[1], widget_geometry[2]>>

\* r is num/den (den > 0) rounded to the nearest integer, halves upwards, and 0
\* when that is negative.
ScaledTo(r, num, den) ==
    /\ r >= 0
    /\ IF 2 * num < den
       THEN r = 0
       ELSE 2 * r * den - den <= 2 * num /\ 2 * num < 2 * r * den + den

\* The indices of the touch points of the event that are pressed, moved or
\* stationary.
ActiveIndices ==
    {i \in 1..Len(touch_event.points) : touch_event.points[i].state # "Released"}

RECURSIVE SumOver(_, _)
SumOver(indices, coordinate) ==
    IF indices = {} THEN 0
    ELSE LET i == CHOOSE j \in indices : TRUE
         IN  coordinate[i] + SumOver(indices \ {i}, coordinate)

\* C10: TouchBegin causes one TouchPressed at the scaled first touch point;
\* TouchUpdate causes one TouchMoved at the scaled average of the touch points that
\* are not released, well defined for every TouchUpdate; TouchEnd and TouchCancel
\* cause TouchReleased; scaling multiplies by the pixel ratio, rounds and clamps
\* negative coordinates to 0.
C10_TouchTranslation ==
    touch_handled =>
        LET points == touch_event.points
            xs == [i \in 1..Len(points) |-> points[i].x]
            ys == [i \in 1..Len(points) |-> points[i].y]
            n == Cardinality(ActiveIndices)
        IN  CASE touch_event.type = "TouchBegin" ->
                   /\ Len(touch_calls) = 1
                   /\ touch_calls[1].call = "TouchPressed"
                   /\ ScaledTo(touch_calls[1].x, xs[1] * pixel_ratio[1], pixel_ratio[2])
                   /\ ScaledTo(touch_calls[1].y, ys[1] * pixel_ratio[1], pixel_ratio[2])
              [] touch_event.type = "TouchUpdate" ->
                   /\ Len(touch_calls) = 1
                   /\ touch_calls[1].call = "TouchMoved"
                   /\ ~touch_undefined
                   /\ n > 0
                   /\ ScaledTo(touch_calls[1].x, SumOver(ActiveIndices, xs) * pixel_ratio[1],
                               n * pixel_ratio[2])
                   /\ ScaledTo(touch_calls[1].y, SumOver(ActiveIndices, ys) * pixel_ratio[1],
                               n * pixel_ratio[2])
              [] touch_event.type \in {"TouchEnd", "TouchCancel"} ->
                   /\ Len(touch_calls) = 1
                   /\ touch_calls[1].call = "TouchReleased"
              [] OTHER -> touch_calls = <<>>

\* C10 holds of every event but a TouchUpdate without an active touch point.
TouchTranslationWhenActive ==
    (touch_event.type = "TouchUpdate" /\ ActiveIndices = {}) \/ C10_TouchTranslation

\* ------------------------------------------------------------------------
\* Further properties of EmuThread::run
\* ------------------------------------------------------------------------

\* The step emits DebugModeLeft.
EmitsLeft == pc = "emit_left" /\ pc' # pc

\* The step emits DebugModeEntered.
EmitsEntered == pc = "if_not_stop" /\ pc' # pc /\ ~stop_run

\* C11: DebugModeEntered and DebugModeLeft alternate, starting with
\* DebugModeEntered: DebugModeLeft is emitted only when DebugModeEntered was the
\* last signal, and DebugModeEntered only when it was not; DebugModeLeft is what
\* was emitted last before a call of system.Run() exactly when an earlier
\* iteration called Pause(); the test after every Pause() emits DebugModeEntered
\* unless a stop has been requested.
C11_DebugSignalsAlternate ==
    /\ [](was_active <=> last_signal # "none")
    /\ [][EmitsLeft => last_signal = "entered" /\ last_signal' = "left"
                          /\ pc' = "set_guard"]_vars
    /\ [][EmitsEntered => last_signal # "entered" /\ last_signal' = "entered"]_vars
    /\ [][last_signal' # last_signal => EmitsLeft \/ EmitsEntered]_vars
    /\ [][run_calls' # run_calls => (last_signal = "left" <=> pause_calls > 0)]_vars
    /\ [](pc = "clear_guard" => pause_calls > 0)
    /\ [][pause_calls' # pause_calls => pc' \in {"clear_guard", "fail_guard"}]_vars
    /\ [][(pc = "if_not_stop" /\ pc' # pc /\ stop_run) => last_signal' = last_signal]_vars

\* C11 witness: DebugModeEntered was emitted a second time, after a DebugModeLeft.
C11_Witness == last_signal = "entered" /\ pause_calls >= 2 /\ pc = "while"

\* No request is pending: running, exec_step and stop_run are all false.
Stopped == ~running /\ ~exec_step /\ ~stop_run

\* The emulation thread is in the last branch of the loop: taking the lock for
\* running_cv.wait, evaluating its predicate, or blocked in it.
InCvWait == pc \in {"cv_lock", "cv_pred", "cv_sleep", "cv_blocked"}

\* While nothing is requested the thread stays in running_cv.wait and calls
\* neither system.Run() nor system.Pause().
StoppedStaysBlocked ==
    [][(InCvWait /\ Stopped) =>
          /\ InCvWait'
          /\ run_calls' = run_calls
          /\ pause_calls' = pause_calls]_vars

\* C12: while running, exec_step and stop_run are all false the thread stays in
\* running_cv.wait and calls neither system.Run() nor system.Pause(); a step
\* requested while stopped takes the loop through the exec_step branch once and
\* back to the stopped state: when the loop leaves the branch the request is no
\* longer pending, so the loop does not take the branch again for it.
C12_RunControlStateMachine ==
    /\ StoppedStaysBlocked
    /\ [][(pc = "unimplemented" /\ pc' # pc) => ~exec_step']_vars

\* ------------------------------------------------------------------------
\* Further properties of GRenderWindow
\* ------------------------------------------------------------------------

\* C13: whenever CreateSharedContext has run with the backend OpenGL, the
\* main_context it read was an OpenGL context whose GL context is not null (never
\* a null main_context, never a dummy context left by a Vulkan initialisation) and
\* nothing it did was undefined; whenever it has run with another backend it
\* returned a dummy context.
C13_SharedContextFromMain ==
    /\ created.backend = "OpenGL" =>
          /\ created.main.kind = "OpenGL"
          /\ created.main.gl
          /\ ~created.undefined
    /\ created.backend \in Backends \ {"OpenGL"} => created.ctx.kind = "Dummy"

\* C13 holds of every run that finds an OpenGL main_context whose GL context is
\* not null, and of every run with another backend; such a run with the backend
\* OpenGL returns an OpenGL context for the same render target.
SharedContextFromSoundMain ==
    \/ created.backend = "OpenGL" /\ ~(created.main.kind = "OpenGL" /\ created.main.gl)
    \/ /\ C13_SharedContextFromMain
       /\ created.backend = "OpenGL" =>
             /\ created.ctx.kind = "OpenGL"
             /\ created.ctx.target = created.main.target

====
